---- MODULE Spec2Model ----
(***************************************************************************)
(* Model of backend/main.py of the resume analyzer: the /analyze handler   *)
(* (analyze_resume) run step by step, the /health handler (health_check),  *)
(* the two text extractors and get_groq_client.                            *)
(*                                                                         *)
(* Text values (job description, page / paragraph text, resume text) are   *)
(* run-length encoded: a sequence of runs [c |-> character, n |-> count],  *)
(* no run empty and no two neighbouring runs of the same character, so a   *)
(* text of 4001 characters is two or three runs.  len, strip, + and [:k]   *)
(* are computed on that encoding character-exactly.  File names are        *)
(* sequences of one-character strings.                                     *)
(***************************************************************************)
EXTENDS Integers, Sequences, FiniteSets, TLC

VARIABLES
    environ,            \* os.environ of the server process
    pc,                 \* position of the /analyze handler
    resume,             \* the UploadFile: [filename]
    submitted,          \* the job_description form field as it arrived
    content,            \* what resume.read() returned
    file_extension,     \* local of analyze_resume
    job_description,    \* parameter of analyze_resume, reassigned at line 149
    resume_text,        \* local of analyze_resume, reassigned at line 148
    prompt,             \* local of analyze_resume
    chat_completion,    \* local of analyze_resume
    raised,             \* the exception raised in analyze_resume, if any
    response,           \* the HTTP response of the /analyze request
    steps,              \* the steps of analyze_resume executed so far
    read_calls,         \* calls of resume.read() in this request
    extraction_calls,   \* calls of extract_text_from_* in this request
    completion_calls,   \* calls of chat.completions.create in this request
    sent_prompt,        \* user message of the last completion call
    health              \* the last /health response

vars == <<environ, pc, resume, submitted, content, file_extension,
          job_description, resume_text, prompt, chat_completion, raised,
          response, steps, read_calls, extraction_calls, completion_calls,
          sent_prompt, health>>

(***************************************************************************)
(* Bounds of the model                                                     *)
(***************************************************************************)
MaxPad == 1

MaxParts == 2

MaxStem == 1

MaxChoices == 2

(***************************************************************************)
(* Program constants                                                       *)
(***************************************************************************)
MinJobDescriptionLen == 50

MinResumeLen == 100

ResumeLimit == 4000

JobDescriptionLimit == 2500

(***************************************************************************)
(* Python str on run-length encoded text                                   *)
(***************************************************************************)
Rep(c, n) == IF n = 0 THEN <<>> ELSE <<[c |-> c, n |-> n]>>

RECURSIVE TextLen(_)
TextLen(t) == IF t = <<>> THEN 0 ELSE t[1].n + TextLen(Tail(t))

Cat(s, t) ==
    IF s = <<>> THEN t
    ELSE IF t = <<>> THEN s
    ELSE IF s[Len(s)].c = t[1].c
         THEN SubSeq(s, 1, Len(s) - 1)
              \o <<[c |-> t[1].c, n |-> s[Len(s)].n + t[1].n]>>
              \o Tail(t)
         ELSE s \o t

IsSpace(c) == c \in {" ", "\n"}

RECURSIVE lstrip(_)
lstrip(t) == IF t # <<>> /\ IsSpace(t[1].c) THEN lstrip(Tail(t)) ELSE t

RECURSIVE rstrip(_)
rstrip(t) ==
    IF t # <<>> /\ IsSpace(t[Len(t)].c)
    THEN rstrip(SubSeq(t, 1, Len(t) - 1))
    ELSE t

strip(t) == rstrip(lstrip(t))

RECURSIVE SliceLast(_, _)
SliceLast(t, k) ==
    IF k = 0 \/ t = <<>> THEN <<>>
    ELSE IF t[Len(t)].n >= k THEN <<[c |-> t[Len(t)].c, n |-> k]>>
    ELSE SliceLast(SubSeq(t, 1, Len(t) - 1), k - t[Len(t)].n) \o <<t[Len(t)]>>

RECURSIVE Slice(_, _)
Slice(t, k) ==
    IF k = 0 \/ t = <<>> THEN <<>>
    ELSE IF t[1].n >= k THEN <<[c |-> t[1].c, n |-> k]>>
    ELSE <<t[1]>> \o Slice(Tail(t), k - t[1].n)

(***************************************************************************)
(* Python str on file names                                                *)
(***************************************************************************)
LowerChar(c) ==
    CASE c = "P" -> "p"
      [] c = "D" -> "d"
      [] c = "F" -> "f"
      [] c = "O" -> "o"
      [] c = "C" -> "c"
      [] c = "X" -> "x"
      [] c = "A" -> "a"
      [] OTHER -> c

lower(s) == [i \in 1..Len(s) |-> LowerChar(s[i])]

RECURSIVE split(_, _)
split(s, sep) ==
    IF \A i \in 1..Len(s) : s[i] # sep THEN <<s>>
    ELSE LET i == CHOOSE j \in 1..Len(s) :
                      s[j] = sep /\ \A k \in 1..(j - 1) : s[k] # sep
         IN  <<SubSeq(s, 1, i - 1)>> \o split(SubSeq(s, i + 1, Len(s)), sep)

Last(l) == l[Len(l)]

(***************************************************************************)
(* Inputs                                                                  *)
(***************************************************************************)
RECURSIVE SeqsUpTo(_, _)
SeqsUpTo(S, n) ==
    IF n = 0 THEN {<<>>}
    ELSE LET prev == SeqsUpTo(S, n - 1)
         IN  prev \cup {Append(s, x) : s \in prev, x \in S}

Core(n) == IF n = 0 THEN <<>> ELSE Cat(Rep("a", n - 1), Rep("b", 1))

\* "", "a", "aa", ... each with and without a dot after it
Stems ==
    { [i \in 1..k |-> "a"] \o d : k \in 0..MaxStem, d \in {<<>>, <<".">>} }

Tails == { <<>>, <<"p", "d", "f">>, <<"P", "D", "F">>, <<"D", "o", "c", "X">>,
           <<"t", "x", "t">>, <<"p", "d", "f", ".">>, <<"d", "o", "c">>,
           <<"p", "d", "f", ".", "t", "x", "t">> }

Filenames == { st \o tl : st \in Stems, tl \in Tails }

\* around the minimum, padded on both sides; around the limit, padded in
\* front; and one whose first JobDescriptionLimit characters are all blank
JobDescriptions ==
    { Cat(Cat(Rep(" ", l), Core(n)), Rep("\n", r)) :
        l \in {0, MaxPad}, r \in {0, MaxPad},
        n \in {0, MinJobDescriptionLen - 1, MinJobDescriptionLen} }
    \cup { Cat(Rep(" ", l), Core(n)) :
             l \in {0, MaxPad}, n \in {JobDescriptionLimit, JobDescriptionLimit + 1} }
    \cup { Cat(Rep(" ", JobDescriptionLimit), Core(MinJobDescriptionLen)) }

\* page / paragraph texts: two of them and the newline between make
\* MinResumeLen - 1, MinResumeLen, ResumeLimit or ResumeLimit + 1 characters
PartTexts ==
    { <<>>, Core(MinResumeLen \div 2 - 1), Core(MinResumeLen \div 2),
      Core(ResumeLimit - MinResumeLen \div 2) }

ErrorMessages == { "EOF marker not found" }

NoContent == [kind |-> "none", parts |-> <<>>, msg |-> ""]

Contents ==
    { [kind |-> "ok", parts |-> p, msg |-> ""] : p \in SeqsUpTo(PartTexts, MaxParts) }
    \cup { [kind |-> "corrupt", parts |-> <<>>, msg |-> m] : m \in ErrorMessages }
    \cup { [kind |-> "unreadable", parts |-> <<>>, msg |-> "read of closed file"] }

Environs ==
    { [v \in {} |-> ""],
      [v \in {"GROQ_API_KEY"} |-> ""],
      [v \in {"GROQ_API_KEY"} |-> "gsk_test"] }

NoCompletion == [kind |-> "none", choices |-> <<>>, msg |-> ""]

ChoiceContents == <<"analysis A", "analysis B", "analysis C", "analysis D">>

Completions ==
    { [kind |-> "ok", choices |-> SubSeq(ChoiceContents, 1, k), msg |-> ""] :
        k \in 0..MaxChoices }
    \cup { [kind |-> "error", choices |-> <<>>, msg |-> "Request timed out."] }

(***************************************************************************)
(* Exceptions and responses                                                *)
(***************************************************************************)
NoException == [type |-> "none", status_code |-> 0, detail |-> <<>>]

HTTPException(status_code, detail) ==
    [type |-> "HTTPException", status_code |-> status_code, detail |-> detail]

\* any other exception; detail holds str(e)
PyException(type, msg) == [type |-> type, status_code |-> 0, detail |-> <<msg>>]

NoBody ==
    [success |-> FALSE, analysis |-> "",
     metadata |-> [resume_length |-> 0, filename |-> <<>>,
                   model_used |-> "", service |-> ""]]

NoResponse == [status_code |-> 0, detail |-> <<>>, body |-> NoBody]

\* an HTTPException leaving a handler becomes the response
ErrorResponse(e) ==
    [status_code |-> e.status_code, detail |-> e.detail, body |-> NoBody]

NoFileDetail == <<"No file uploaded">>

UnsupportedDetail == <<"Unsupported file format. Please upload PDF or DOCX">>

ShortJobDescriptionDetail ==
    <<"Job description is too short. Please provide a detailed description.">>

ShortResumeDetail ==
    <<"Could not extract sufficient text from resume. Please check your file.">>

KeyNotSetMessage == "GROQ_API_KEY environment variable is not set"

ModelName == "llama-3.3-70b-versatile"

PDF == <<"p", "d", "f">>

DOCX == <<"d", "o", "c", "x">>

(***************************************************************************)
(* get_groq_client, the extractors, the handler's except clauses           *)
(***************************************************************************)
\* os.getenv(name): None when the variable is not set
getenv(env, name) ==
    IF name \in DOMAIN env
    THEN [is_none |-> FALSE, value |-> env[name]]
    ELSE [is_none |-> TRUE, value |-> ""]

\* truth value of an Optional[str]
bool(v) == ~v.is_none /\ v.value # ""

api_key_present_is_set(env) == ~getenv(env, "GROQ_API_KEY").is_none

\* health_check, line 84
api_key_present(env) == bool(getenv(env, "GROQ_API_KEY"))

get_groq_client_unchecked(env) == NoException

\* get_groq_client: the exception it raises, NoException when it returns a client
get_groq_client(env) ==
    LET api_key == getenv(env, "GROQ_API_KEY")
    IN  IF ~bool(api_key)
        THEN PyException("ValueError", KeyNotSetMessage)
        ELSE NoException

\* lines 49-53: text of the pages that yield text, each followed by a newline
RECURSIVE PdfPagesText(_)
PdfPagesText(pages) ==
    IF pages = <<>> THEN <<>>
    ELSE LET extracted == pages[1]
         IN  IF extracted # <<>>
             THEN Cat(Cat(extracted, Rep("\n", 1)), PdfPagesText(Tail(pages)))
             ELSE PdfPagesText(Tail(pages))

\* line 62: "\n".join(paragraph texts)
RECURSIVE JoinNewline(_)
JoinNewline(paragraphs) ==
    IF paragraphs = <<>> THEN <<>>
    ELSE IF Len(paragraphs) = 1 THEN paragraphs[1]
    ELSE Cat(Cat(paragraphs[1], Rep("\n", 1)), JoinNewline(Tail(paragraphs)))

extract_text_from_pdf_unguarded(file_content) ==
    IF file_content.kind = "corrupt"
    THEN [raised |-> PyException("PdfReadError", file_content.msg), text |-> <<>>]
    ELSE [raised |-> NoException, text |-> strip(PdfPagesText(file_content.parts))]

\* [raised |-> the exception raised or NoException, text |-> the value returned]
extract_text_from_pdf(file_content) ==
    IF file_content.kind = "corrupt"
    THEN [raised |-> HTTPException(400, <<"Error reading PDF: ", file_content.msg>>),
          text |-> <<>>]
    ELSE [raised |-> NoException, text |-> strip(PdfPagesText(file_content.parts))]

extract_text_from_docx(file_content) ==
    IF file_content.kind = "corrupt"
    THEN [raised |-> HTTPException(400, <<"Error reading DOCX: ", file_content.msg>>),
          text |-> <<>>]
    ELSE [raised |-> NoException, text |-> strip(JoinNewline(file_content.parts))]

HandlerExcept_no_message(e) ==
    IF e.type = "HTTPException" THEN e
    ELSE HTTPException(500, <<"Analysis failed">>)

\* lines 218-224: the exception that leaves analyze_resume's try block
HandlerExcept(e) ==
    IF e.type = "HTTPException" THEN e
    ELSE HTTPException(500, <<"Analysis failed: ">> \o e.detail)

job_description_too_short_unstripped(jd) ==
    jd = <<>> \/ TextLen(jd) < MinJobDescriptionLen

\* line 124
job_description_too_short(jd) ==
    jd = <<>> \/ TextLen(strip(jd)) < MinJobDescriptionLen

resume_text_too_short_inclusive(text) ==
    text = <<>> \/ TextLen(strip(text)) <= MinResumeLen

\* line 141
resume_text_too_short(text) ==
    text = <<>> \/ TextLen(strip(text)) < MinResumeLen

extension_of_first_segment(filename) == split(lower(filename), ".")[1]

\* line 116
extension_of(filename) == Last(split(lower(filename), "."))

first_choice_last(completion) == completion.choices[Len(completion.choices)]

\* line 205
first_choice(completion) == completion.choices[1]

\* lines 207-216
success_body(analysis, text, filename) ==
    [success |-> TRUE, analysis |-> analysis,
     metadata |-> [resume_length |-> TextLen(text), filename |-> filename,
                   model_used |-> ModelName, service |-> "groq"]]

\* lines 84-98
health_check(env) ==
    [status_code |-> 200,
     body |-> [status |-> IF api_key_present(env) THEN "healthy" ELSE "unhealthy",
               api_configured |-> api_key_present(env),
               service |-> "groq",
               model |-> ModelName,
               message |-> IF ~api_key_present(env)
                           THEN KeyNotSetMessage
                           ELSE "API is ready"]]

NoHealth ==
    [status_code |-> 0,
     body |-> [status |-> "", api_configured |-> FALSE, service |-> "",
               model |-> "", message |-> ""]]

(***************************************************************************)
(* State after start-up                                                    *)
(***************************************************************************)
NoPrompt == [resume_text |-> <<>>, job_description |-> <<>>]

Init ==
    /\ environ \in Environs
    /\ pc = "idle"
    /\ resume = [filename |-> <<>>]
    /\ submitted = <<>>
    /\ content = NoContent
    /\ file_extension = <<>>
    /\ job_description = <<>>
    /\ resume_text = <<>>
    /\ prompt = NoPrompt
    /\ chat_completion = NoCompletion
    /\ raised = NoException
    /\ response = NoResponse
    /\ steps = <<>>
    /\ read_calls = 0
    /\ extraction_calls = 0
    /\ completion_calls = 0
    /\ sent_prompt = NoPrompt
    /\ health = NoHealth

(***************************************************************************)
(* POST /analyze, one action per step of analyze_resume                    *)
(***************************************************************************)
\* a raise outside the try block (lines 114, 118, 125)
Raise(e) ==
    /\ raised' = e
    /\ response' = ErrorResponse(e)
    /\ pc' = "done"

\* a raise inside the try block passes through the except clauses
RaiseInTry(e) ==
    /\ raised' = e
    /\ response' = ErrorResponse(HandlerExcept(e))
    /\ pc' = "done"

Continue(next) ==
    /\ pc' = next
    /\ UNCHANGED <<raised, response>>

\* the request arrives: FastAPI binds the two form fields
Receive ==
    /\ pc = "idle"
    /\ \E fn \in Filenames, jd \in JobDescriptions :
          /\ resume' = [filename |-> fn]
          /\ submitted' = jd
          /\ job_description' = jd
    /\ pc' = "filename"
    /\ UNCHANGED <<environ, content, file_extension, resume_text, prompt,
                   chat_completion, raised, response, steps, read_calls,
                   extraction_calls, completion_calls, sent_prompt, health>>

\* lines 113-114
ValidateFilename ==
    /\ pc = "filename"
    /\ steps' = Append(steps, "filename")
    /\ IF resume.filename = <<>>
       THEN Raise(HTTPException(400, NoFileDetail))
       ELSE Continue("extension")
    /\ UNCHANGED <<environ, resume, submitted, content, file_extension,
                   job_description, resume_text, prompt, chat_completion,
                   read_calls, extraction_calls, completion_calls,
                   sent_prompt, health>>

\* lines 116-121
ValidateExtension ==
    /\ pc = "extension"
    /\ steps' = Append(steps, "extension")
    /\ file_extension' = extension_of(resume.filename)
    /\ IF file_extension' \notin {PDF, DOCX}
       THEN Raise(HTTPException(400, UnsupportedDetail))
       ELSE Continue("job_description")
    /\ UNCHANGED <<environ, resume, submitted, content, job_description,
                   resume_text, prompt, chat_completion, read_calls,
                   extraction_calls, completion_calls, sent_prompt, health>>

\* lines 123-128
ValidateJobDescription ==
    /\ pc = "job_description"
    /\ steps' = Append(steps, "job_description")
    /\ IF job_description_too_short(job_description)
       THEN Raise(HTTPException(400, ShortJobDescriptionDetail))
       ELSE Continue("extract")
    /\ UNCHANGED <<environ, resume, submitted, content, file_extension,
                   job_description, resume_text, prompt, chat_completion,
                   read_calls, extraction_calls, completion_calls,
                   sent_prompt, health>>

ReadAndExtract_client_first ==
    /\ pc = "extract"
    /\ steps' = Append(steps, "extract")
    /\ read_calls' = read_calls + 1
    /\ \E c \in Contents :
          /\ content' = c
          /\ IF get_groq_client(environ) # NoException
             THEN /\ RaiseInTry(get_groq_client(environ))
                  /\ UNCHANGED <<resume_text, extraction_calls>>
             ELSE IF c.kind = "unreadable"
             THEN /\ RaiseInTry(PyException("ValueError", c.msg))
                  /\ UNCHANGED <<resume_text, extraction_calls>>
             ELSE LET r == IF file_extension = PDF
                           THEN extract_text_from_pdf(c)
                           ELSE extract_text_from_docx(c)
                  IN  /\ extraction_calls' = extraction_calls + 1
                      /\ IF r.raised # NoException
                         THEN /\ RaiseInTry(r.raised)
                              /\ UNCHANGED resume_text
                         ELSE /\ resume_text' = r.text
                              /\ Continue("validate_text")
    /\ UNCHANGED <<environ, resume, submitted, file_extension,
                   job_description, prompt, chat_completion,
                   completion_calls, sent_prompt, health>>

\* lines 132-138: read the upload, then extract by file type
ReadAndExtract ==
    /\ pc = "extract"
    /\ steps' = Append(steps, "extract")
    /\ read_calls' = read_calls + 1
    /\ \E c \in Contents :
          /\ content' = c
          /\ IF c.kind = "unreadable"
             THEN /\ RaiseInTry(PyException("ValueError", c.msg))
                  /\ UNCHANGED <<resume_text, extraction_calls>>
             ELSE LET r == IF file_extension = PDF
                           THEN extract_text_from_pdf(c)
                           ELSE extract_text_from_docx(c)
                  IN  /\ extraction_calls' = extraction_calls + 1
                      /\ IF r.raised # NoException
                         THEN /\ RaiseInTry(r.raised)
                              /\ UNCHANGED resume_text
                         ELSE /\ resume_text' = r.text
                              /\ Continue("validate_text")
    /\ UNCHANGED <<environ, resume, submitted, file_extension,
                   job_description, prompt, chat_completion,
                   completion_calls, sent_prompt, health>>

\* lines 140-145
ValidateExtractedText ==
    /\ pc = "validate_text"
    /\ steps' = Append(steps, "validate_text")
    /\ IF resume_text_too_short(resume_text)
       THEN RaiseInTry(HTTPException(400, ShortResumeDetail))
       ELSE Continue("truncate")
    /\ UNCHANGED <<environ, resume, submitted, content, file_extension,
                   job_description, resume_text, prompt, chat_completion,
                   read_calls, extraction_calls, completion_calls,
                   sent_prompt, health>>

\* lines 147-183: truncate both texts and fill the prompt template
TruncateAndCompose ==
    /\ pc = "truncate"
    /\ steps' = Append(steps, "truncate")
    /\ resume_text' = Slice(resume_text, ResumeLimit)
    /\ job_description' = Slice(job_description, JobDescriptionLimit)
    /\ prompt' = [resume_text |-> resume_text',
                  job_description |-> job_description']
    /\ Continue("get_client")
    /\ UNCHANGED <<environ, resume, submitted, content, file_extension,
                   chat_completion, read_calls, extraction_calls,
                   completion_calls, sent_prompt, health>>

\* line 186
GetClient ==
    /\ pc = "get_client"
    /\ steps' = Append(steps, "get_client")
    /\ LET e == get_groq_client(environ)
       IN  IF e # NoException
           THEN RaiseInTry(e)
           ELSE Continue("create")
    /\ UNCHANGED <<environ, resume, submitted, content, file_extension,
                   job_description, resume_text, prompt, chat_completion,
                   read_calls, extraction_calls, completion_calls,
                   sent_prompt, health>>

\* lines 188-203: the single outbound completion call
CreateCompletion ==
    /\ pc = "create"
    /\ steps' = Append(steps, "create")
    /\ completion_calls' = completion_calls + 1
    /\ sent_prompt' = prompt
    /\ \E o \in Completions :
          IF o.kind = "error"
          THEN /\ RaiseInTry(PyException("APIConnectionError", o.msg))
               /\ UNCHANGED chat_completion
          ELSE /\ chat_completion' = o
               /\ Continue("result")
    /\ UNCHANGED <<environ, resume, submitted, content, file_extension,
                   job_description, resume_text, prompt, read_calls,
                   extraction_calls, health>>

\* lines 205-216
BuildResult ==
    /\ pc = "result"
    /\ steps' = Append(steps, "result")
    /\ IF chat_completion.choices = <<>>
       THEN RaiseInTry(PyException("IndexError", "list index out of range"))
       ELSE /\ response' =
                 [status_code |-> 200, detail |-> <<>>,
                  body |-> success_body(first_choice(chat_completion),
                                        resume_text, resume.filename)]
            /\ pc' = "done"
            /\ UNCHANGED raised
    /\ UNCHANGED <<environ, resume, submitted, content, file_extension,
                   job_description, resume_text, prompt, chat_completion,
                   read_calls, extraction_calls, completion_calls,
                   sent_prompt, health>>

\* the response has been sent; the request's values are dropped
Deliver ==
    /\ pc = "done"
    /\ pc' = "idle"
    /\ resume' = [filename |-> <<>>]
    /\ submitted' = <<>>
    /\ content' = NoContent
    /\ file_extension' = <<>>
    /\ job_description' = <<>>
    /\ resume_text' = <<>>
    /\ prompt' = NoPrompt
    /\ chat_completion' = NoCompletion
    /\ raised' = NoException
    /\ response' = NoResponse
    /\ steps' = <<>>
    /\ read_calls' = 0
    /\ extraction_calls' = 0
    /\ completion_calls' = 0
    /\ sent_prompt' = NoPrompt
    /\ UNCHANGED <<environ, health>>

(***************************************************************************)
(* GET /health                                                             *)
(***************************************************************************)
HealthCheck ==
    /\ health' = health_check(environ)
    /\ UNCHANGED <<environ, pc, resume, submitted, content, file_extension,
                   job_description, resume_text, prompt, chat_completion,
                   raised, response, steps, read_calls, extraction_calls,
                   completion_calls, sent_prompt>>

Next ==
    \/ Receive
    \/ ValidateFilename
    \/ ValidateExtension
    \/ ValidateJobDescription
    \/ ReadAndExtract
    \/ ValidateExtractedText
    \/ TruncateAndCompose
    \/ GetClient
    \/ CreateCompletion
    \/ BuildResult
    \/ Deliver
    \/ HealthCheck

Spec == Init /\ [][Next]_vars

(***************************************************************************)
(* Vocabulary of the properties, stated without the handler's operators    *)
(***************************************************************************)
Min(a, b) == IF a <= b THEN a ELSE b

\* number of characters left once leading and trailing whitespace is removed
TrimmedLen(t) ==
    LET solid == {i \in 1..Len(t) : ~IsSpace(t[i].c)}
    IN  IF solid = {} THEN 0
        ELSE LET lo == CHOOSE i \in solid : \A j \in solid : i <= j
                 hi == CHOOSE i \in solid : \A j \in solid : j <= i
             IN  TextLen(SubSeq(t, lo, hi))

\* p is the text of the first TextLen(p) characters of t
IsPrefixOf(p, t) ==
    /\ Len(p) <= Len(t)
    /\ \A i \in 1..(Len(p) - 1) : p[i] = t[i]
    /\ p # <<>> => /\ p[Len(p)].c = t[Len(p)].c
                   /\ p[Len(p)].n <= t[Len(p)].n

\* the last Len(suffix) characters of name are suffix, letter case ignored
EndsWithIgnoringCase(name, suffix) ==
    /\ Len(name) >= Len(suffix)
    /\ \A i \in 1..Len(suffix) :
          LowerChar(name[Len(name) - Len(suffix) + i]) = suffix[i]

NamedPdfOrDocx(name) ==
    \/ EndsWithIgnoringCase(name, <<".">> \o PDF)
    \/ EndsWithIgnoringCase(name, <<".">> \o DOCX)

CredentialConfigured ==
    /\ "GROQ_API_KEY" \in DOMAIN environ
    /\ environ["GROQ_API_KEY"] # ""

Contains(detail, msg) == \E i \in 1..Len(detail) : detail[i] = msg

Order ==
    <<"filename", "extension", "job_description", "extract", "validate_text",
      "truncate", "get_client", "create", "result">>

Executed(step) == \E i \in 1..Len(steps) : steps[i] = step

\* the text the extractor returned for the content that was read
Extracted ==
    IF file_extension = PDF
    THEN extract_text_from_pdf(content).text
    ELSE extract_text_from_docx(content).text

InFlight == pc # "idle"

Answered == pc = "done"

(***************************************************************************)
(* C1: a request whose file name does not end in .pdf or .docx (letter     *)
(* case ignored) is answered 400 as a format rejection (missing name or    *)
(* unsupported format) and neither extraction nor a completion call        *)
(* happens for it; a name that does end in .pdf or .docx is not rejected   *)
(* for its format.                                                         *)
(***************************************************************************)
C1_FormatRejection ==
    InFlight =>
        /\ ~NamedPdfOrDocx(resume.filename) =>
              /\ extraction_calls = 0
              /\ completion_calls = 0
              /\ Answered =>
                    /\ response.status_code = 400
                    /\ response.detail \in {NoFileDetail, UnsupportedDetail}
        /\ NamedPdfOrDocx(resume.filename) =>
              response.detail \notin {NoFileDetail, UnsupportedDetail}

(***************************************************************************)
(* C2: with an accepted file name, a job description that trims to fewer   *)
(* than 50 characters is answered 400 before the upload is read or         *)
(* extracted and before any completion call; one that trims to 50 or more  *)
(* passes the check.                                                       *)
(***************************************************************************)
C2_ShortJobDescriptionRejectedEarly ==
    Executed("job_description") =>
        IF TrimmedLen(submitted) < 50
        THEN /\ Answered
             /\ response.status_code = 400
             /\ response.detail = ShortJobDescriptionDetail
             /\ read_calls = 0
             /\ extraction_calls = 0
             /\ completion_calls = 0
        ELSE /\ response.detail # ShortJobDescriptionDetail
             /\ Len(steps) = 3 => pc = "extract"

\* rejected although the raw text has 50 characters or more
C2_Witness ==
    /\ Answered
    /\ response.detail = ShortJobDescriptionDetail
    /\ TextLen(submitted) >= 50
    /\ TrimmedLen(submitted) = 49

(***************************************************************************)
(* C3: a document that parses but whose extracted text trims to fewer than *)
(* 100 characters (empty included) is answered 400 with the insufficient-  *)
(* content detail, not 500, and no completion call is made; 100 characters *)
(* pass.                                                                   *)
(***************************************************************************)
C3_ShortResumeRejected ==
    Executed("validate_text") =>
        IF TrimmedLen(Extracted) < 100
        THEN /\ Answered
             /\ response.status_code = 400
             /\ response.detail = ShortResumeDetail
             /\ response.body = NoBody
             /\ completion_calls = 0
        ELSE /\ response.detail # ShortResumeDetail
             /\ Len(steps) = 5 => pc = "truncate"

C3_Witness ==
    /\ Answered
    /\ content.kind = "ok"
    /\ TrimmedLen(Extracted) = 99
    /\ response.status_code = 400
    /\ response.detail = ShortResumeDetail

(***************************************************************************)
(* C4: the resume text in the prompt is exactly the first min(len, 4000)   *)
(* characters of the extracted text and the job description in the prompt  *)
(* is exactly the first min(len, 2500) characters of the submitted one;    *)
(* texts within the limits are passed unchanged; the 100 / 50 validations  *)
(* are made on the untruncated values.  The completion call sends that     *)
(* prompt.                                                                 *)
(***************************************************************************)
C4_ExactTruncation ==
    Executed("truncate") =>
        /\ IsPrefixOf(prompt.resume_text, Extracted)
        /\ TextLen(prompt.resume_text) = Min(TextLen(Extracted), 4000)
        /\ IsPrefixOf(prompt.job_description, submitted)
        /\ TextLen(prompt.job_description) = Min(TextLen(submitted), 2500)
        /\ TextLen(Extracted) <= 4000 => prompt.resume_text = Extracted
        /\ TextLen(submitted) <= 2500 => prompt.job_description = submitted
        /\ TrimmedLen(Extracted) >= 100
        /\ TrimmedLen(submitted) >= 50
        /\ completion_calls > 0 => sent_prompt = prompt

\* both texts over their limits, and the prompt went out
C4_Witness ==
    /\ completion_calls = 1
    /\ TextLen(Extracted) > 4000
    /\ TextLen(submitted) > 2500
    /\ TextLen(sent_prompt.resume_text) = 4000
    /\ TextLen(sent_prompt.job_description) = 2500

(***************************************************************************)
(* C5: once validation has passed, a failure of the completion adapter     *)
(* (credential absent, the completion call raising, no choice in the       *)
(* answer) is answered 500 with a detail that contains the failure's       *)
(* message, and the response carries no success body.                      *)
(***************************************************************************)
C5_AdapterFailureIs500 ==
    (Answered /\ Executed("get_client") /\ raised # NoException) =>
        /\ response.status_code = 500
        /\ Contains(response.detail, raised.detail[1])
        /\ response.body = NoBody
        /\ ~CredentialConfigured => Contains(response.detail, KeyNotSetMessage)

\* the completion call itself raised
C5_Witness ==
    /\ Answered
    /\ completion_calls = 1
    /\ raised.type = "APIConnectionError"
    /\ response.status_code = 500
    /\ Contains(response.detail, "Request timed out.")

(***************************************************************************)
(* C6: a parse error raised while extracting text from the PDF or DOCX     *)
(* bytes is answered 400 with the underlying message, never 500, and no    *)
(* completion call is made.                                                *)
(***************************************************************************)
C6_ParseErrorIs400 ==
    content.kind = "corrupt" =>
        /\ Answered
        /\ response.status_code = 400
        /\ Contains(response.detail, content.msg)
        /\ response.body = NoBody
        /\ completion_calls = 0

C6_Witness ==
    /\ Answered
    /\ content.kind = "corrupt"
    /\ file_extension = PDF
    /\ extraction_calls = 1
    /\ response.status_code = 400

(***************************************************************************)
(* C7: /health always answers 200 and makes no completion call; it reports *)
(* api_configured true and status healthy exactly when the credential is   *)
(* set and non-empty, api_configured false and status unhealthy otherwise, *)
(* and api_configured agrees with the outcome of the credential check of   *)
(* /analyze.                                                               *)
(***************************************************************************)
C7_HealthAgreesWithCredential ==
    /\ [](health # NoHealth =>
            /\ health.status_code = 200
            /\ health.body.api_configured = CredentialConfigured
            /\ (health.body.status = "healthy") = CredentialConfigured
            /\ (health.body.status = "unhealthy") = ~CredentialConfigured
            /\ Executed("get_client") =>
                  health.body.api_configured = (pc \in {"create", "result"}
                                                \/ Executed("create")))
    /\ [][health' # health =>
            /\ completion_calls' = completion_calls
            /\ sent_prompt' = sent_prompt
            /\ response' = response]_vars

\* the key is set but empty: /health says not configured, /analyze failed its check
C7_Witness ==
    /\ health # NoHealth
    /\ "GROQ_API_KEY" \in DOMAIN environ
    /\ ~health.body.api_configured
    /\ health.body.status = "unhealthy"
    /\ Answered
    /\ steps[Len(steps)] = "get_client"
    /\ response.status_code = 500

(***************************************************************************)
(* C8: a successful /analyze response has success true, analysis equal to  *)
(* the content of the first completion choice, metadata.filename equal to  *)
(* the uploaded file name and metadata.resume_length equal to the length   *)
(* of the truncated resume text of the prompt, between 100 and 4000.       *)
(***************************************************************************)
C8_SuccessBody ==
    (Answered /\ response.status_code = 200) =>
        /\ response.body.success = TRUE
        /\ chat_completion.kind = "ok"
        /\ response.body.analysis = Head(chat_completion.choices)
        /\ response.body.metadata.filename = resume.filename
        /\ response.body.metadata.resume_length = TextLen(sent_prompt.resume_text)
        /\ response.body.metadata.resume_length >= 100
        /\ response.body.metadata.resume_length <= 4000
        /\ response.detail = <<>>

\* two different choices came back and the resume was cut to the limit
C8_Witness ==
    /\ Answered
    /\ response.status_code = 200
    /\ Len(chat_completion.choices) = 2
    /\ chat_completion.choices[1] # chat_completion.choices[2]
    /\ TextLen(Extracted) > 4000
    /\ response.body.metadata.resume_length = 4000

(***************************************************************************)
(* C9: a request makes at most one completion call, without retry, and     *)
(* only after the file name check, the job description check, extraction,  *)
(* the extracted-text check and the credential check have passed; a        *)
(* request answered 4xx has made none.                                     *)
(***************************************************************************)
C9_SingleLateCompletionCall ==
    /\ completion_calls <= 1
    /\ completion_calls = 1 =>
          /\ SubSeq(steps, 1, 8) = SubSeq(Order, 1, 8)
          /\ resume.filename # <<>>
          /\ file_extension \in {PDF, DOCX}
          /\ TrimmedLen(submitted) >= 50
          /\ content.kind = "ok"
          /\ extraction_calls = 1
          /\ TrimmedLen(Extracted) >= 100
          /\ CredentialConfigured
    /\ (Answered /\ response.status_code >= 400 /\ response.status_code < 500) =>
          completion_calls = 0
    /\ (Answered /\ Executed("create")) => completion_calls = 1

\* the one call failed and was not repeated
C9_Witness ==
    /\ Answered
    /\ response.status_code = 500
    /\ raised.type = "APIConnectionError"
    /\ completion_calls = 1

(***************************************************************************)
(* C10: /analyze runs its steps in the order file name present, extension  *)
(* allowed, job description length, read and extraction, extracted-text    *)
(* length, credential lookup, completion call; a request gets exactly one  *)
(* response, that of the earliest failing step, and no later step runs.    *)
(***************************************************************************)
C10_EarliestFailureAnswers ==
    /\ Len(steps) <= Len(Order)
    /\ steps = SubSeq(Order, 1, Len(steps))
    /\ (response # NoResponse) = Answered
    /\ Answered =>
          IF resume.filename = <<>>
          THEN response.status_code = 400 /\ response.detail = NoFileDetail
               /\ Len(steps) = 1
          ELSE IF file_extension \notin {PDF, DOCX}
          THEN response.status_code = 400 /\ response.detail = UnsupportedDetail
               /\ Len(steps) = 2
          ELSE IF TrimmedLen(submitted) < 50
          THEN response.status_code = 400
               /\ response.detail = ShortJobDescriptionDetail
               /\ Len(steps) = 3 /\ read_calls = 0
          ELSE IF content.kind = "unreadable"
          THEN response.status_code = 500 /\ Len(steps) = 4
               /\ extraction_calls = 0
          ELSE IF content.kind = "corrupt"
          THEN response.status_code = 400 /\ Len(steps) = 4
               /\ Contains(response.detail, content.msg)
          ELSE IF TrimmedLen(Extracted) < 100
          THEN response.status_code = 400 /\ response.detail = ShortResumeDetail
               /\ Len(steps) = 5
          ELSE IF ~CredentialConfigured
          THEN response.status_code = 500 /\ Len(steps) = 7
               /\ Contains(response.detail, KeyNotSetMessage)
               /\ completion_calls = 0
          ELSE IF raised # NoException
          THEN response.status_code = 500 /\ Len(steps) \in {8, 9}
          ELSE response.status_code = 200 /\ Len(steps) = 9

\* a corrupt document and no credential: the answer is the 400 of the parse error
C10_Witness ==
    /\ Answered
    /\ content.kind = "corrupt"
    /\ ~CredentialConfigured
    /\ response.status_code = 400
    /\ steps = SubSeq(Order, 1, 4)

====
